---- MODULE Spec2Model ----
(***************************************************************************)
(* A model of nussl's AudioSignal (src/nussl/core/audio_signal.py): the    *)
(* time-domain sample buffer, its active region, the mutators built on the *)
(* audio_data setter, the arithmetic operators and the channel accessors.  *)
(*                                                                         *)
(* Samples are real numbers in the code.  Here a sample is an integer in   *)
(* fixed point: max_val units stand for 1.0, and a division rounds to the  *)
(* nearest unit (RoundDiv), as a floating-point division rounds to the     *)
(* nearest representable value.  A non-finite array (one holding inf or    *)
(* nan) carries finite = FALSE instead of the non-finite values.           *)
(*                                                                         *)
(* The code is Python 2 (unicode, __div__, implicit relative imports), so  *)
(* None orders before every number: NoneInt is an integer below all others *)
(* of the model and the comparisons of the code keep their Python 2        *)
(* outcome.                                                                *)
(***************************************************************************)
EXTENDS Integers, Sequences, FiniteSets, TLC

VARIABLES sig, last, nops

vars == <<sig, last, nops>>

----------------------------------------------------------------------------
(* Bounds of the model *)

MaxLen == 3       \* longest input array, and longest stored array
MaxChan == 2      \* most channels of an input array
MaxAbs == 8       \* largest magnitude of a sample, in units of 1/max_val
MaxOps == 1       \* most calls in one behaviour that change more than the active region
MaxTransformOps == 2       \* the same, in behaviours of the transforms alone

(* Program constants *)

max_val == 4                     \* peak_normalize's max_val = 1.0, in units
DEFAULT_SAMPLE_RATE == 44100     \* constants.DEFAULT_SAMPLE_RATE
DEFAULT_BIT_DEPTH == 16          \* constants.DEFAULT_BIT_DEPTH

----------------------------------------------------------------------------
(* Python values *)

None == [kind |-> "None"]
NoneInt == 0 - 1000000
IsNone(v) == v.kind = "None"

Min(a, b) == IF a < b THEN a ELSE b
Max(a, b) == IF a > b THEN a ELSE b
Abs(x) == IF x < 0 THEN 0 - x ELSE x

\* a / b for b > 0, rounded to the nearest unit (halves away from zero)
RoundDiv(a, b) == IF a >= 0 THEN (2 * a + b) \div (2 * b)
                  ELSE 0 - ((2 * (0 - a) + b) \div (2 * b))

\* seq[start:stop], Python's slice of a sequence (negative indices count
\* from the end, out-of-range indices are clipped)
PySlice(seq, start, stop) ==
    LET L == Len(seq)
        s == IF start < 0 THEN Max(start + L, 0) ELSE Min(start, L)
        e == IF stop < 0 THEN Max(stop + L, 0) ELSE Min(stop, L)
    IN IF s < e THEN SubSeq(seq, s + 1, e) ELSE <<>>

\* len(range(L)[start:stop])
PySliceLen(L, start, stop) ==
    LET s == IF start < 0 THEN Max(start + L, 0) ELSE Min(start, L)
        e == IF stop < 0 THEN Max(stop + L, 0) ELSE Min(stop, L)
    IN IF s < e THEN e - s ELSE 0

----------------------------------------------------------------------------
(* numpy arrays: shape is the tuple of dimensions, data the nested        *)
(* sequences (data[i][j] for a 2-D array), finite is np.isfinite().all()  *)

ndarray(shape, data, finite) ==
    [kind |-> "ndarray", shape |-> shape, data |-> data, finite |-> finite]

ndim(a) == Len(a.shape)

RECURSIVE Prod(_)
Prod(shape) == IF shape = <<>> THEN 1 ELSE Head(shape) * Prod(Tail(shape))

size(a) == Prod(a.shape)

\* value.T: the axes reversed (of a 2-D or a 3-D array)
Transpose(a) ==
    IF ndim(a) = 2
    THEN ndarray(<<a.shape[2], a.shape[1]>>,
                 [j \in 1..a.shape[2] |->
                     [i \in 1..a.shape[1] |-> a.data[i][j]]],
                 a.finite)
    ELSE ndarray(<<a.shape[3], a.shape[2], a.shape[1]>>,
                 [k \in 1..a.shape[3] |->
                     [j \in 1..a.shape[2] |->
                         [i \in 1..a.shape[1] |-> a.data[i][j][k]]]],
                 a.finite)

\* np.expand_dims(value, axis=0) of a 1-D array
expand_dims(a) == ndarray(<<1, a.shape[1]>>, <<a.data>>, a.finite)

\* a[:, start:stop] of a 2-D array
SliceCols(a, start, stop) ==
    ndarray(<<a.shape[1], PySliceLen(a.shape[2], start, stop)>>,
            [i \in 1..a.shape[1] |-> PySlice(a.data[i], start, stop)],
            a.finite)

\* np.max(np.abs(a)) of a non-empty 2-D array
RECURSIVE SeqMaxAbs(_)
SeqMaxAbs(seq) ==
    IF seq = <<>> THEN 0 ELSE Max(Abs(Head(seq)), SeqMaxAbs(Tail(seq)))

MaxAbsOf(a) == SeqMaxAbs([i \in 1..a.shape[1] |-> SeqMaxAbs(a.data[i])])

\* a * (num / den) of a 2-D array; den = 0 is an infinite factor, which
\* leaves no finite value in a non-empty array
Scale(a, num, den) ==
    IF den = 0 THEN ndarray(a.shape, a.data, a.finite /\ size(a) = 0)
    ELSE ndarray(a.shape,
                 [i \in 1..a.shape[1] |->
                     [j \in 1..a.shape[2] |-> RoundDiv(a.data[i][j] * num, den)]],
                 a.finite)

\* a + b of two 2-D arrays of one shape
ArrayAdd(a, b) ==
    ndarray(a.shape,
            [i \in 1..a.shape[1] |->
                [j \in 1..a.shape[2] |-> a.data[i][j] + b.data[i][j]]],
            a.finite /\ b.finite)

\* np.concatenate((a, b), axis=1) of two 2-D arrays with as many rows
Concatenate(a, b) ==
    ndarray(<<a.shape[1], a.shape[2] + b.shape[2]>>,
            [i \in 1..a.shape[1] |-> a.data[i] \o b.data[i]],
            a.finite /\ b.finite)

\* np.lib.pad(v, (before, after), 'constant') of a 1-D array
Pad(v, before, after) ==
    ndarray(<<before + v.shape[1] + after>>,
            [k \in 1..before |-> 0] \o v.data \o [k \in 1..after |-> 0],
            v.finite)

\* np.mean(a, axis=0, keepdims=keep_dims) of a 2-D array; the mean of no
\* rows is nan
RECURSIVE SeqSum(_)
SeqSum(seq) == IF seq = <<>> THEN 0 ELSE Head(seq) + SeqSum(Tail(seq))

Mean0(a, keep_dims) ==
    LET n == a.shape[1]
        row == [j \in 1..a.shape[2] |->
                   IF n = 0 THEN 0
                   ELSE RoundDiv(SeqSum([i \in 1..n |-> a.data[i][j]]), n)]
        fin == a.finite /\ (n > 0 \/ a.shape[2] = 0)
    IN IF keep_dims THEN ndarray(<<1, a.shape[2]>>, <<row>>, fin)
       ELSE ndarray(<<a.shape[2]>>, row, fin)

\* np.array(rows) of a list of n 1-D arrays of length l (an empty list gives
\* the empty 1-D array)
Stack(rows, n, l) ==
    IF n = 0 THEN ndarray(<<0>>, <<>>, TRUE)
    ELSE ndarray(<<n, l>>, [i \in 1..n |-> rows[i].data],
                 \A i \in 1..n : rows[i].finite)

\* the model keeps the arrays it stores within its bounds
InBounds(a) ==
    IF IsNone(a) THEN TRUE
    ELSE /\ \A d \in 1..ndim(a) : a.shape[d] <= MaxLen
         /\ ndim(a) = 2 => MaxAbsOf(a) <= MaxAbs

----------------------------------------------------------------------------
(* Outcome of a call: ok is FALSE when the call raised; sig is the signal  *)
(* as the call left it; ret is what the call returned                      *)

Return(s, r) == [ok |-> TRUE, sig |-> s, ret |-> r]
Raise(s) == [ok |-> FALSE, sig |-> s, ret |-> None]

----------------------------------------------------------------------------
(* AudioSignal properties *)

_signal_length(s) ==
    IF IsNone(s._audio_data) THEN NoneInt ELSE s._audio_data.shape[2]

audio_data(s) ==
    IF IsNone(s._audio_data) THEN None
    ELSE LET full == s._audio_data.shape[2]
             end == IF s._active_end # NoneInt /\ s._active_end < full
                    THEN s._active_end ELSE full
             start == IF s._active_start # NoneInt /\ s._active_start > 0
                      THEN s._active_start ELSE 0
         IN SliceCols(s._audio_data, start, end)

signal_length(s) ==
    IF IsNone(audio_data(s)) THEN NoneInt ELSE audio_data(s).shape[2]

num_channels(s) ==
    IF ~IsNone(audio_data(s)) THEN audio_data(s).shape[1]
    ELSE IF ~IsNone(s._stft_data) THEN s._stft_data.shape[3]
    ELSE NoneInt

\* a variant that looks at the start of the region only
active_region_is_default_start_only(s) ==
    s._active_start = 0

active_region_is_default(s) ==
    s._active_start = 0 /\ s._active_end = _signal_length(s)

----------------------------------------------------------------------------
(* Active region *)

set_active_region(s, start, end) ==
    Return([s EXCEPT !._active_start = IF start >= 0 THEN start ELSE 0,
                     !._active_end = IF end < _signal_length(s) THEN end
                                     ELSE _signal_length(s)],
           None)

\* a variant that resets the end of the region and leaves its start
set_active_region_to_default_end_only(s) ==
    [s EXCEPT !._active_end = _signal_length(s)]

set_active_region_to_default(s) ==
    [s EXCEPT !._active_start = 0, !._active_end = _signal_length(s)]

----------------------------------------------------------------------------
(* The audio_data setter *)

\* a variant that stores the array and leaves the active region as it was
audio_data_setter_keeps_region(s, value) ==
    IF IsNone(value) THEN Return([s EXCEPT !._audio_data = None], None)
    ELSE IF value.kind # "ndarray" THEN Raise(s)
    ELSE IF ~value.finite THEN Raise(s)
    ELSE LET v1 == IF ndim(value) > 1 /\ value.shape[1] > value.shape[2]
                   THEN Transpose(value) ELSE value
         IN IF ndim(v1) > 2 THEN Raise(s)
            ELSE LET v2 == IF ndim(v1) < 2 THEN expand_dims(v1) ELSE v1
                 IN Return([s EXCEPT !._audio_data = v2], None)

\* the audio_data setter
audio_data_setter(s, value) ==
    IF IsNone(value) THEN Return([s EXCEPT !._audio_data = None], None)
    ELSE IF value.kind # "ndarray" THEN Raise(s)
    ELSE IF ~value.finite THEN Raise(s)
    ELSE LET v1 == IF ndim(value) > 1 /\ value.shape[1] > value.shape[2]
                   THEN Transpose(value) ELSE value
         IN IF ndim(v1) > 2 THEN Raise(s)
            ELSE LET v2 == IF ndim(v1) < 2 THEN expand_dims(v1) ELSE v1
                 IN Return(set_active_region_to_default(
                               [s EXCEPT !._audio_data = v2]), None)

\* the stft_data setter
stft_data_setter(s, value) ==
    IF IsNone(value) THEN Return([s EXCEPT !._stft_data = None], None)
    ELSE IF value.kind # "ndarray" THEN Raise(s)
    ELSE IF ndim(value) = 1 THEN Raise(s)
    ELSE LET v1 == IF ndim(value) = 2
                   THEN ndarray(<<value.shape[1], value.shape[2], 1>>,
                                [b \in 1..value.shape[1] |->
                                    [f \in 1..value.shape[2] |->
                                        <<value.data[b][f]>>]],
                                value.finite)
                   ELSE value
         IN IF ndim(v1) > 3 THEN Raise(s)
            ELSE Return([s EXCEPT !._stft_data = v1], None)

----------------------------------------------------------------------------
(* Loading from an array *)

load_audio_from_array(s, signal, sample_rate) ==
    IF signal.kind # "ndarray" THEN Raise(s)
    ELSE LET r == audio_data_setter(s, signal)
         IN IF ~r.ok THEN r
            ELSE Return(set_active_region_to_default(
                            [r.sig EXCEPT !._sample_rate =
                                IF sample_rate # NoneInt THEN sample_rate
                                ELSE DEFAULT_SAMPLE_RATE]), None)

----------------------------------------------------------------------------
(* Channel utilities *)

\* array[i] along an axis of n entries: the position numpy reads (from 1),
\* 0 when it raises IndexError; a negative i counts from the end
PyIndex(n, i) ==
    IF i >= n \/ i < 0 - n THEN 0 ELSE IF i < 0 THEN i + n + 1 ELSE i + 1

\* utils._get_axis(array, axis_num, i) for axis 0 of a 2-D array: row i
_get_axis(array, i) ==
    IF IsNone(array) \/ ndim(array) < 1 \/ PyIndex(array.shape[1], i) = 0
    THEN [ok |-> FALSE, ret |-> None]
    ELSE [ok |-> TRUE,
          ret |-> ndarray(<<array.shape[2]>>,
                          array.data[PyIndex(array.shape[1], i)],
                          array.finite)]

\* utils._get_axis(array, axis_num, i) for axis 2 of a 3-D array
_get_stft_axis(array, i) ==
    IF IsNone(array) \/ ndim(array) < 3 \/ PyIndex(array.shape[3], i) = 0
    THEN [ok |-> FALSE, ret |-> None]
    ELSE [ok |-> TRUE,
          ret |-> ndarray(<<array.shape[1], array.shape[2]>>,
                          [b \in 1..array.shape[1] |->
                              [f \in 1..array.shape[2] |->
                                  array.data[b][f][PyIndex(array.shape[3],
                                                           i)]]],
                          array.finite)]

\* a variant without the test for a negative channel number
_verify_get_channel_upper_only(s, n) == ~(n >= num_channels(s))

\* TRUE when _verify_get_channel(n) returns, FALSE when it raises
_verify_get_channel(s, n) == ~(n >= num_channels(s)) /\ ~(n < 0)

get_channel(s, n) ==
    IF ~_verify_get_channel(s, n) THEN Raise(s)
    ELSE LET g == _get_axis(audio_data(s), n)
         IN IF g.ok THEN Return(s, g.ret) ELSE Raise(s)

get_stft_channel(s, n) ==
    IF ~_verify_get_channel(s, n) THEN Raise(s)
    ELSE LET g == _get_stft_axis(s._stft_data, n)
         IN IF g.ok THEN Return(s, g.ret) ELSE Raise(s)

----------------------------------------------------------------------------
(* The transform kernels of stft_utils and librosa.resample are not part    *)
(* of audio_signal.py.  They are modelled for a rectangular window of 1 or *)
(* 2 samples with as many FFT bins as window samples, where the discrete   *)
(* Fourier transform is real: DFT(<<a>>) = <<a>>, DFT(<<a, b>>) =          *)
(* <<a + b, a - b>>.                                                       *)

\* a variant that drops the frame that would reach past the end
frameCount_whole_frames_only(L, window_length, hop_length) ==
    Max(0, ((L - window_length) \div hop_length) + 1)

\* the number of frames of a channel of length L: the window slides from
\* sample 0 at stride hop_length until a frame reaches the end of the
\* channel; the samples that last frame lacks are zeros
frameCount(L, window_length, hop_length) ==
    IF L = 0 THEN 0
    ELSE IF L <= window_length THEN 1
    ELSE ((L - window_length + hop_length - 1) \div hop_length) + 1

DFT(frame) ==
    IF Len(frame) = 2 THEN <<frame[1] + frame[2], frame[1] - frame[2]>>
    ELSE frame

IDFT(bins) ==
    IF Len(bins) = 2 THEN <<RoundDiv(bins[1] + bins[2], 2),
                            RoundDiv(bins[1] - bins[2], 2)>>
    ELSE bins

\* a variant that only refuses a hop that does not advance
e_stft_accepts_hop_only(window_length, hop_length) == hop_length > 0

\* stft_utils.e_stft raises a configuration error unless the window and the
\* hop are positive
e_stft_accepts(window_length, hop_length) ==
    window_length > 0 /\ hop_length > 0

\* stft_utils.e_stft(signal, window_length, hop_length, rectangular): a 2-D
\* array of shape (bins, frames)
e_stft(signal, window_length, hop_length) ==
    LET L == signal.shape[1]
        F == frameCount(L, window_length, hop_length)
        frame(k) == [w \in 1..window_length |->
                        IF k * hop_length + w <= L
                        THEN signal.data[k * hop_length + w] ELSE 0]
    IN ndarray(<<window_length, F>>,
               [b \in 1..window_length |->
                   [f \in 1..F |-> DFT(frame(f - 1))[b]]],
               signal.finite)

\* stft_utils.e_istft(stft, window_length, hop_length, rectangular): the
\* overlap-add of the inverse transforms, divided by the number of frames
\* that cover a sample; a 1-D array
e_istft(stft, window_length, hop_length) ==
    LET F == stft.shape[2]
        N == IF F = 0 THEN 0 ELSE (F - 1) * hop_length + window_length
        seg(f) == IDFT([b \in 1..window_length |-> stft.data[b][f]])
        covers(f, n) == /\ (f - 1) * hop_length < n
                        /\ n <= (f - 1) * hop_length + window_length
        acc(n) == SeqSum([f \in 1..F |->
                     IF covers(f, n) THEN seg(f)[n - (f - 1) * hop_length]
                     ELSE 0])
        norm(n) == SeqSum([f \in 1..F |-> IF covers(f, n) THEN 1 ELSE 0])
    IN ndarray(<<N>>,
               [n \in 1..N |-> IF norm(n) = 0 THEN acc(n)
                               ELSE RoundDiv(acc(n), norm(n))],
               stft.finite)

\* librosa.resample(channel, sample_rate, new_sample_rate): as many samples
\* as the new rate needs, each the latest sample of the old rate
librosa_resample(channel, sample_rate, new_sample_rate) ==
    LET L == channel.shape[1]
        N == (L * new_sample_rate + sample_rate - 1) \div sample_rate
    IN ndarray(<<N>>,
               [k \in 1..N |->
                   channel.data[Min(L, ((k - 1) * sample_rate)
                                       \div new_sample_rate + 1)]],
               channel.finite)

----------------------------------------------------------------------------
(* STFT utilities *)

\* the channels get_channels() yields: range(num_channels) is fixed when the
\* loop starts, a missing channel raises
get_channels_ok(s) ==
    /\ num_channels(s) # NoneInt
    /\ \A i \in 0..(num_channels(s) - 1) : get_channel(s, i).ok

get_stft_channels_ok(s) ==
    /\ num_channels(s) # NoneInt
    /\ \A i \in 0..(num_channels(s) - 1) : get_stft_channel(s, i).ok

_do_stft(s, window_length, hop_length) ==
    LET n == num_channels(s)
        L == signal_length(s)
        per == [i \in 1..n |->
                   e_stft(get_channel(s, i - 1).ret, window_length, hop_length)]
        F == frameCount(L, window_length, hop_length)
    IN ndarray(<<window_length, F, n>>,
               [b \in 1..window_length |->
                   [f \in 1..F |-> [c \in 1..n |-> per[c].data[b][f]]]],
               \A c \in 1..n : per[c].finite)

\* a variant that refuses a hop that does not divide the window
stft_even_hops_only(s, window_length, hop_length, overwrite) ==
    IF IsNone(audio_data(s)) \/ size(audio_data(s)) = 0 THEN Raise(s)
    ELSE IF window_length % hop_length # 0 THEN Raise(s)
    ELSE IF ~get_channels_ok(s) THEN Raise(s)
    ELSE IF ~e_stft_accepts(window_length, hop_length) THEN Raise(s)
    ELSE LET calculated_stft == _do_stft(s, window_length, hop_length)
         IN IF overwrite
            THEN LET r == stft_data_setter(s, calculated_stft)
                 IN IF ~r.ok THEN r ELSE Return(r.sig, calculated_stft)
            ELSE Return(s, calculated_stft)

\* a variant that only rejects absent samples
stft_absent_only(s, window_length, hop_length, overwrite) ==
    IF IsNone(audio_data(s)) THEN Raise(s)
    ELSE IF ~get_channels_ok(s) THEN Raise(s)
    ELSE IF ~e_stft_accepts(window_length, hop_length) THEN Raise(s)
    ELSE LET calculated_stft == _do_stft(s, window_length, hop_length)
         IN IF overwrite
            THEN LET r == stft_data_setter(s, calculated_stft)
                 IN IF ~r.ok THEN r ELSE Return(r.sig, calculated_stft)
            ELSE Return(s, calculated_stft)

stft(s, window_length, hop_length, overwrite) ==
    IF IsNone(audio_data(s)) \/ size(audio_data(s)) = 0 THEN Raise(s)
    ELSE IF ~get_channels_ok(s) THEN Raise(s)
    ELSE IF ~e_stft_accepts(window_length, hop_length) THEN Raise(s)
    ELSE LET calculated_stft == _do_stft(s, window_length, hop_length)
         IN IF overwrite
            THEN LET r == stft_data_setter(s, calculated_stft)
                 IN IF ~r.ok THEN r ELSE Return(r.sig, calculated_stft)
            ELSE Return(s, calculated_stft)

_do_istft(s, window_length, hop_length) ==
    LET n == num_channels(s)
        per == [i \in 1..n |->
                   e_istft(get_stft_channel(s, i - 1).ret,
                           window_length, hop_length)]
    IN Stack(per, n, IF n = 0 THEN 0 ELSE per[1].shape[1])

\* a variant that never truncates the reconstruction
istft_untruncated(s, window_length, hop_length, overwrite, truncate_to_length) ==
    IF IsNone(s._stft_data) \/ size(s._stft_data) = 0 THEN Raise(s)
    ELSE IF ~get_stft_channels_ok(s) THEN Raise(s)
    ELSE LET c0 == _do_istft(s, window_length, hop_length)
             c1 == IF ndim(c0) = 1
                   THEN ndarray(<<c0.shape[1], 1>>,
                                [i \in 1..c0.shape[1] |-> <<c0.data[i]>>],
                                c0.finite)
                   ELSE c0
         IN IF overwrite \/ IsNone(audio_data(s))
            THEN LET r == audio_data_setter(s, c1)
                 IN IF ~r.ok THEN r ELSE Return(r.sig, c1)
            ELSE Return(s, c1)

\* a variant that stores the reconstruction whatever overwrite says
istft_always_stores(s, window_length, hop_length, overwrite, truncate_to_length) ==
    IF IsNone(s._stft_data) \/ size(s._stft_data) = 0 THEN Raise(s)
    ELSE IF ~get_stft_channels_ok(s) THEN Raise(s)
    ELSE LET c0 == _do_istft(s, window_length, hop_length)
             c1 == IF ndim(c0) = 1
                   THEN ndarray(<<c0.shape[1], 1>>,
                                [i \in 1..c0.shape[1] |-> <<c0.data[i]>>],
                                c0.finite)
                   ELSE c0
             t == IF truncate_to_length = NoneInt
                     /\ signal_length(s) # NoneInt
                  THEN signal_length(s) ELSE truncate_to_length
             calculated_signal ==
                 IF t # NoneInt /\ t > 0 THEN SliceCols(c1, 0, t) ELSE c1
             r == audio_data_setter(s, calculated_signal)
         IN IF ~r.ok THEN r ELSE Return(r.sig, calculated_signal)

\* truncate_to_length is NoneInt when the caller gives none
istft(s, window_length, hop_length, overwrite, truncate_to_length) ==
    IF IsNone(s._stft_data) \/ size(s._stft_data) = 0 THEN Raise(s)
    ELSE IF ~get_stft_channels_ok(s) THEN Raise(s)
    ELSE LET c0 == _do_istft(s, window_length, hop_length)
             c1 == IF ndim(c0) = 1
                   THEN ndarray(<<c0.shape[1], 1>>,
                                [i \in 1..c0.shape[1] |-> <<c0.data[i]>>],
                                c0.finite)
                   ELSE c0
             t == IF truncate_to_length = NoneInt
                     /\ signal_length(s) # NoneInt
                  THEN signal_length(s) ELSE truncate_to_length
             calculated_signal ==
                 IF t # NoneInt /\ t > 0 THEN SliceCols(c1, 0, t) ELSE c1
         IN IF overwrite \/ IsNone(audio_data(s))
            THEN LET r == audio_data_setter(s, calculated_signal)
                 IN IF ~r.ok THEN r ELSE Return(r.sig, calculated_signal)
            ELSE Return(s, calculated_signal)

----------------------------------------------------------------------------
(* Masks.  A mask object is [kind |-> "MaskBase", mask |-> a 3-D array];    *)
(* its shape is the shape of that array.                                   *)

mask_shape(mask) == mask.mask.shape

\* the element-wise product of two 3-D arrays of one shape
Multiply(a, b) ==
    ndarray(a.shape,
            [i \in 1..a.shape[1] |->
                [j \in 1..a.shape[2] |->
                    [k \in 1..a.shape[3] |->
                        a.data[i][j][k] * b.data[i][j][k]]]],
            a.finite /\ b.finite)

\* a copy of s that holds stft_data and no samples
make_copy_with_stft_data(s, stft_data) ==
    LET r1 == stft_data_setter(s, stft_data)
    IN IF ~r1.ok THEN Raise(s)
       ELSE Return(s, audio_data_setter(r1.sig, None).sig)

\* a variant that lets numpy broadcast a mask of one channel
apply_mask_broadcasting(s, mask) ==
    IF mask.kind # "MaskBase" THEN Raise(s)
    ELSE IF IsNone(s._stft_data) THEN Raise(s)
    ELSE IF /\ mask_shape(mask) # s._stft_data.shape
            /\ mask_shape(mask)
                   # <<s._stft_data.shape[1], s._stft_data.shape[2], 1>>
         THEN Raise(s)
    ELSE LET a == s._stft_data
             masked_stft ==
                 ndarray(a.shape,
                         [i \in 1..a.shape[1] |->
                             [j \in 1..a.shape[2] |->
                                 [k \in 1..a.shape[3] |->
                                     a.data[i][j][k]
                                         * mask.mask.data[i][j][
                                               Min(k, mask_shape(mask)[3])]]]],
                         a.finite)
         IN make_copy_with_stft_data(s, masked_stft)

\* None has no shape: comparing the shapes raises when stft_data is absent
apply_mask(s, mask) ==
    IF mask.kind # "MaskBase" THEN Raise(s)
    ELSE IF IsNone(s._stft_data) THEN Raise(s)
    ELSE IF mask_shape(mask) # s._stft_data.shape THEN Raise(s)
    ELSE LET masked_stft == Multiply(s._stft_data, mask.mask)
         IN make_copy_with_stft_data(s, masked_stft)

----------------------------------------------------------------------------
(* More utilities *)

resample(s, new_sample_rate) ==
    IF new_sample_rate = s._sample_rate THEN Return(s, None)
    ELSE IF ~get_channels_ok(s) THEN Raise(s)
    ELSE LET n == num_channels(s)
             resampled_signal ==
                 [i \in 1..n |->
                     librosa_resample(get_channel(s, i - 1).ret,
                                      s._sample_rate, new_sample_rate)]
             r == audio_data_setter(s,
                      Stack(resampled_signal, n,
                            IF n = 0 THEN 0 ELSE resampled_signal[1].shape[1]))
         IN IF ~r.ok THEN r
            ELSE Return([r.sig EXCEPT !._sample_rate = new_sample_rate], None)

\* a variant that averages the stored samples, whatever the active region
to_mono_stored(s, overwrite, keep_dims) ==
    IF IsNone(audio_data(s)) THEN Raise(s)
    ELSE LET mono == Mean0(s._audio_data, keep_dims)
         IN IF overwrite
            THEN LET r == audio_data_setter(s, mono)
                 IN IF ~r.ok THEN r ELSE Return(r.sig, mono)
            ELSE Return(s, mono)

to_mono(s, overwrite, keep_dims) ==
    IF IsNone(audio_data(s)) THEN Raise(s)
    ELSE LET mono == Mean0(audio_data(s), keep_dims)
         IN IF overwrite
            THEN LET r == audio_data_setter(s, mono)
                 IN IF ~r.ok THEN r ELSE Return(r.sig, mono)
            ELSE Return(s, mono)

\* np.mean(a, axis=0) of a 3-D array: the mean over its first axis, a 2-D
\* array; the mean of no entries is nan
Mean0of3(a) ==
    LET n == a.shape[1]
    IN ndarray(<<a.shape[2], a.shape[3]>>,
               [j \in 1..a.shape[2] |->
                   [k \in 1..a.shape[3] |->
                       IF n = 0 THEN 0
                       ELSE RoundDiv(SeqSum([i \in 1..n |-> a.data[i][j][k]]),
                                     n)]],
               a.finite /\ (n > 0 \/ a.shape[2] = 0 \/ a.shape[3] = 0))

stft_to_one_channel(s, overwrite) ==
    IF IsNone(s._stft_data) THEN Raise(s)
    ELSE LET one_channel_stft == Mean0of3(s._stft_data)
         IN IF overwrite
            THEN LET r == stft_data_setter(s, one_channel_stft)
                 IN IF ~r.ok THEN r ELSE Return(r.sig, one_channel_stft)
            ELSE Return(s, one_channel_stft)

\* np.abs(stft_data) ** power of the n-th channel (power 1: magnitude,
\* power 2: power spectrogram)
get_spectrogram_channel(s, n, power) ==
    IF ~_verify_get_channel(s, n) THEN Raise(s)
    ELSE IF IsNone(s._stft_data) THEN Raise(s)
    ELSE LET g == _get_stft_axis(s._stft_data, n)
         IN IF ~g.ok THEN Raise(s)
            ELSE Return(s, ndarray(g.ret.shape,
                     [b \in 1..g.ret.shape[1] |->
                         [f \in 1..g.ret.shape[2] |->
                             IF power = 2
                             THEN g.ret.data[b][f] * g.ret.data[b][f]
                             ELSE Abs(g.ret.data[b][f])]],
                     g.ret.finite))

get_power_spectrogram_channel(s, n) == get_spectrogram_channel(s, n, 2)

get_magnitude_spectrogram_channel(s, n) == get_spectrogram_channel(s, n, 1)

----------------------------------------------------------------------------
(* Construction.  A file is [kind |-> "file", readable, audio,              *)
(* sample_rate]: whether audioread can open it, and the float samples and  *)
(* the rate librosa.load decodes from it                                   *)

\* after the samples are assigned (outcome r): resample when the caller
\* asked for a rate that is not the file's
load_audio_from_file_resample(r, new_sample_rate) ==
    IF ~r.ok THEN r
    ELSE IF new_sample_rate # NoneInt /\ new_sample_rate # r.sig._sample_rate
    THEN resample(r.sig, new_sample_rate)
    ELSE r

\* the end of load_audio_from_file, reached unless an earlier step raised
load_audio_from_file_end(r) ==
    IF ~r.ok THEN r
    ELSE Return(set_active_region_to_default(r.sig), None)

load_audio_from_file(s, input_file_path, new_sample_rate) ==
    IF ~input_file_path.readable THEN Raise(s)
    ELSE load_audio_from_file_end(
             load_audio_from_file_resample(
                 audio_data_setter(
                     [s EXCEPT !._sample_rate = input_file_path.sample_rate],
                     input_file_path.audio),
                 new_sample_rate))

\* AudioSignal(path_to_input_file=..., audio_data_array=..., stft=...,
\* sample_rate=...); no signal exists when the constructor raises
__init___without_source_check(path_to_input_file, audio_data_array, stft_array, sample_rate) ==
    LET s0 == [_audio_data |-> None, _stft_data |-> None,
               _sample_rate |-> NoneInt,
               _active_start |-> NoneInt, _active_end |-> NoneInt]
        r1 == IF ~IsNone(path_to_input_file)
              THEN load_audio_from_file(s0, path_to_input_file, sample_rate)
              ELSE IF ~IsNone(audio_data_array)
              THEN load_audio_from_array(s0, audio_data_array, sample_rate)
              ELSE Return([s0 EXCEPT !._sample_rate = DEFAULT_SAMPLE_RATE],
                          None)
    IN IF ~r1.ok THEN r1
       ELSE IF ~IsNone(stft_array) THEN stft_data_setter(r1.sig, stft_array)
       ELSE r1

__init__(path_to_input_file, audio_data_array, stft_array, sample_rate) ==
    LET s0 == [_audio_data |-> None, _stft_data |-> None,
               _sample_rate |-> NoneInt,
               _active_start |-> NoneInt, _active_end |-> NoneInt]
        init_inputs == << ~IsNone(path_to_input_file),
                          ~IsNone(audio_data_array), ~IsNone(stft_array) >>
    IN IF Cardinality({i \in 1..3 : init_inputs[i]}) > 1 THEN Raise(s0)
       ELSE LET r1 == IF ~IsNone(path_to_input_file)
                      THEN load_audio_from_file(s0, path_to_input_file,
                                                sample_rate)
                      ELSE IF ~IsNone(audio_data_array)
                      THEN load_audio_from_array(s0, audio_data_array,
                                                 sample_rate)
                      ELSE Return([s0 EXCEPT !._sample_rate =
                                       DEFAULT_SAMPLE_RATE], None)
            IN IF ~r1.ok THEN r1
               ELSE IF ~IsNone(stft_array) THEN stft_data_setter(r1.sig, stft_array)
               ELSE r1

----------------------------------------------------------------------------
(* Verification shared by the mutators and the arithmetic *)

\* TRUE when _verify_audio(other) returns, FALSE when it raises
_verify_audio(s, other) ==
    /\ num_channels(s) = num_channels(other)
    /\ s._sample_rate = other._sample_rate
    /\ active_region_is_default(s)

_verify_audio_arithmetic(s, other) ==
    /\ _verify_audio(s, other)
    /\ signal_length(s) = signal_length(other)

----------------------------------------------------------------------------
(* Mutators *)

\* a variant that puts the samples of other in front
concat_other_first(s, other) ==
    IF ~_verify_audio(s, other) THEN Raise(s)
    ELSE IF IsNone(audio_data(s)) \/ IsNone(audio_data(other)) THEN Raise(s)
    ELSE audio_data_setter(s, Concatenate(audio_data(other), audio_data(s)))

concat(s, other) ==
    IF ~_verify_audio(s, other) THEN Raise(s)
    ELSE IF IsNone(audio_data(s)) \/ IsNone(audio_data(other)) THEN Raise(s)
    ELSE audio_data_setter(s, Concatenate(audio_data(s), audio_data(other)))

truncate_samples(s, n_samples) ==
    IF n_samples > signal_length(s) THEN Raise(s)
    ELSE IF ~active_region_is_default(s) THEN Raise(s)
    ELSE IF IsNone(audio_data(s)) THEN Raise(s)
    ELSE audio_data_setter(s, SliceCols(audio_data(s), 0, n_samples))

\* n_seconds > signal_length / sample_rate, for a positive sample rate
truncate_seconds(s, n_seconds) ==
    IF signal_length(s) = NoneInt THEN Raise(s)
    ELSE IF n_seconds * s._sample_rate > signal_length(s) THEN Raise(s)
    ELSE IF ~active_region_is_default(s) THEN Raise(s)
    ELSE truncate_samples(s, n_seconds * s._sample_rate)

crop_signal(s, before, after) ==
    IF ~active_region_is_default(s) THEN Raise(s)
    ELSE IF IsNone(audio_data(s)) THEN Raise(s)
    ELSE LET r == audio_data_setter(s, SliceCols(audio_data(s), before,
                                                 signal_length(s) - after))
         IN IF ~r.ok THEN r
            ELSE Return(set_active_region_to_default(r.sig), None)

\* the loop of zero_pad: ch runs over range(n), n the channel count when the
\* loop started; every pass assigns the padded channel ch to audio_data
RECURSIVE zero_pad_loop(_, _, _, _, _)
zero_pad_loop(s, ch, n, before, after) ==
    IF ch >= n THEN Return(s, None)
    ELSE LET g == get_channel(s, ch)
         IN IF ~g.ok THEN Raise(s)
            ELSE IF before < 0 \/ after < 0 THEN Raise(s)
            ELSE LET r == audio_data_setter(s, Pad(g.ret, before, after))
                 IN IF ~r.ok THEN r
                    ELSE zero_pad_loop(r.sig, ch + 1, n, before, after)

zero_pad(s, before, after) ==
    IF ~active_region_is_default(s) THEN Raise(s)
    ELSE IF num_channels(s) = NoneInt THEN Raise(s)
    ELSE zero_pad_loop(s, 0, num_channels(s), before, after)

\* a variant that compares the peak with 2.0 in place of max_val = 1.0
peak_normalize_late(s, overwrite) ==
    IF IsNone(audio_data(s)) \/ size(audio_data(s)) = 0 THEN Raise(s)
    ELSE LET max_signal == MaxAbsOf(audio_data(s))
         IN IF max_signal > 2 * max_val
            THEN LET normalized == Scale(audio_data(s), max_val, max_signal)
                 IN IF overwrite
                    THEN LET r == audio_data_setter(s, normalized)
                         IN IF ~r.ok THEN r ELSE Return(r.sig, normalized)
                    ELSE Return(s, normalized)
            ELSE Return(s, None)

peak_normalize(s, overwrite) ==
    IF IsNone(audio_data(s)) \/ size(audio_data(s)) = 0 THEN Raise(s)
    ELSE LET max_signal == MaxAbsOf(audio_data(s))
         IN IF max_signal > max_val
            THEN LET normalized == Scale(audio_data(s), max_val, max_signal)
                 IN IF overwrite
                    THEN LET r == audio_data_setter(s, normalized)
                         IN IF ~r.ok THEN r ELSE Return(r.sig, normalized)
                    ELSE Return(s, normalized)
            ELSE Return(s, None)

\* value is <<kind, num, den>>: the real number num / den (den = 0: inf)
\* when kind is "real", and no real number otherwise
apply_gain(s, value) ==
    IF value[1] # "real" THEN Raise(s)
    ELSE IF IsNone(audio_data(s)) THEN Raise(s)
    ELSE LET r == audio_data_setter(s, Scale(audio_data(s), value[2], value[3]))
         IN IF ~r.ok THEN r ELSE Return(r.sig, r.sig)

__imul__(s, value) == apply_gain(s, value)

\* 1 / float(value) raises ZeroDivisionError for value = 0
__idiv__(s, value) ==
    IF value = 0 THEN Raise(s)
    ELSE apply_gain(s, IF value > 0 THEN <<"real", 1, value>>
                       ELSE <<"real", 0 - 1, 0 - value>>)

----------------------------------------------------------------------------
(* Arithmetic: add and subtract return a new signal.  The outcome carries  *)
(* the other operand as the call left it (other).                         *)

add(s, other) ==
    IF ~_verify_audio_arithmetic(s, other) THEN Raise(s) @@ [other |-> other]
    ELSE IF IsNone(audio_data(s)) THEN Raise(s) @@ [other |-> other]
    ELSE LET new_signal == s
             r == audio_data_setter(new_signal,
                                    ArrayAdd(audio_data(s), audio_data(other)))
         IN IF ~r.ok THEN Raise(s) @@ [other |-> other]
            ELSE Return(s, r.sig) @@ [other |-> other]

subtract(s, other) ==
    LET other_copy == other
        g == __imul__(other_copy, <<"real", 0 - 1, 1>>)
    IN IF ~g.ok THEN Raise(s) @@ [other |-> other]
       ELSE LET a == add(s, g.ret)
            IN [a EXCEPT !.other = other]

----------------------------------------------------------------------------
(* Conversion to integers.  astype to an integer type keeps a value the    *)
(* type holds; the conversion of a value out of the type's range is        *)
(* undefined in C: a build wraps it around modulo 2^bits or returns the    *)
(* type's lowest value (overflow names which).  All values of the model    *)
(* fit in 32 bits.                                                         *)

astype(v, bits, overflow) ==
    IF bits = 32 THEN v
    ELSE LET half == 2 ^ (bits - 1)
         IN IF 0 - half <= v /\ v < half THEN v
            ELSE IF overflow = "wrap" THEN ((v + half) % (2 * half)) - half
            ELSE 0 - half

\* np.multiply(a, 2 ** (DEFAULT_BIT_DEPTH - 1)).astype('int<bits>') of a 2-D
\* array of samples (max_val units are 1.0)
AsInts(a, bits, overflow) ==
    ndarray(a.shape,
            [i \in 1..a.shape[1] |->
                [j \in 1..a.shape[2] |->
                    astype((a.data[i][j] * 2 ^ (DEFAULT_BIT_DEPTH - 1))
                               \div max_val, bits, overflow)]],
            TRUE)

\* numpy has the integer types int8, int16, int32 and int64
audio_data_as_ints(s, bit_depth, overflow) ==
    IF bit_depth \notin {8, 16, 24, 32} THEN Raise(s)
    ELSE IF IsNone(audio_data(s)) THEN Raise(s)
    ELSE IF bit_depth \notin {8, 16, 32, 64} THEN Raise(s)
    ELSE Return(s, AsInts(audio_data(s), bit_depth, overflow))

\* the call returns the array it hands to wav.write, one row per sample;
\* an exception of peak_normalize is raised again
write_audio_to_file(s, overflow) ==
    IF IsNone(audio_data(s)) THEN Raise(s)
    ELSE LET p == peak_normalize(s, TRUE)
         IN IF ~p.ok THEN Raise(s)
            ELSE Return(p.sig,
                        Transpose(AsInts(audio_data(p.sig), 16, overflow)))

----------------------------------------------------------------------------
(* Inputs *)

\* two sample patterns: 1 stays within [-1.0, 1.0] (at most max_val units),
\* 2 is three times as loud and exceeds 1.0
Sample(p, i, j) == (IF p = 1 THEN 1 ELSE 3) * (((2 * i + j) % 5) - 2)

InputArray(c, l, p) ==
    ndarray(<<c, l>>, [i \in 1..c |-> [j \in 1..l |-> Sample(p, i, j)]], TRUE)

\* well-formed 2-D inputs: a loud mono array, a quiet array of MaxChan
\* channels, and an array with more rows than columns
GoodInputs ==
    {InputArray(1, MaxLen, 2), InputArray(MaxChan, MaxLen, 1),
     InputArray(MaxChan, 1, 1)}

\* a 1-D array, an empty 1-D array, an array holding a non-finite value, a
\* 3-D array
OddInputs ==
    { ndarray(<<MaxLen>>, [j \in 1..MaxLen |-> Sample(1, 1, j)], TRUE),
      ndarray(<<0>>, << >>, TRUE),
      ndarray(<<1, MaxLen>>, <<[j \in 1..MaxLen |-> 0]>>, FALSE),
      ndarray(<<1, 1, 1>>, <<<<<<0>>>>>>, TRUE) }

\* a time-frequency array of 2 bins, 1 frame and MaxChan channels
StftInput ==
    ndarray(<<2, 1, MaxChan>>,
            [b \in 1..2 |-> <<[c \in 1..MaxChan |-> b + c]>>], TRUE)

LoadInputs ==
    OddInputs \cup {InputArray(MaxChan, MaxLen - 1, 2), InputArray(1, 0, 1)}

\* the second operand of concat, add and subtract: a signal of its own,
\* constructed from an array and possibly narrowed
Narrowed(s, start, end) == set_active_region(s, start, end).sig

Others ==
    { __init__(None, InputArray(c, MaxLen, 1), None, 1).sig :  c \in {1, MaxChan} }
    \cup { __init__(None, InputArray(1, 1, 1), None, 1).sig }
    \cup { __init__(None, InputArray(1, MaxLen, 1), None, 2).sig }
    \cup { Narrowed(__init__(None, InputArray(c, MaxLen, 1), None, 1).sig, 0, 1) :
               c \in {1, MaxChan} }
    \cup { __init__(None, None, None, NoneInt).sig }

\* the arguments of set_active_region: both out of range, a proper window,
\* a window up to the end, a negative end, a start behind the end
RegionArgs == { <<0 - 1, MaxLen + 1>>, <<0, 1>>, <<1, MaxLen>>,
                <<1, 0 - 1>>, <<MaxLen + 1, 1>> }

ChannelArgs == {0 - 1, 0, MaxChan - 1, MaxChan}

GainValues == { <<"real", 2, 1>>, <<"real", 1, 0>>, <<"complex", 0, 1>> }

----------------------------------------------------------------------------
(* The state: sig is the signal, last the latest call on it (its name,     *)
(* arguments and outcome, and the signal before it), nops the number of    *)
(* calls so far that changed the signal                                    *)

NoCall == [op |-> "none", args |-> <<>>, ok |-> TRUE, pre |-> None,
           ret |-> None, other |-> None, otherPost |-> None]

Init ==
    /\ \/ \E a \in GoodInputs : sig = __init__(None, a, None, 1).sig
       \/ sig = __init__(None, None, StftInput, NoneInt).sig
       \/ sig = __init__(None, None, None, NoneInt).sig
    /\ last = NoCall
    /\ nops = 0

\* what a call must change to count as one of the MaxOps calls: anything but
\* the active region
Content(s) == <<s._audio_data, s._stft_data, s._sample_rate>>

\* the call op(args) with outcome r takes the signal from sig to r.sig; at
\* most limit calls of a behaviour change more than the active region
CallWithin(limit, op, args, r, other, otherPost) ==
    /\ last = NoCall
    /\ \E res \in {r} :
           /\ Content(res.sig) # Content(sig) => nops < limit
           /\ InBounds(res.sig._audio_data)
           /\ sig' = res.sig
           /\ nops' = IF Content(res.sig) # Content(sig) THEN nops + 1
                      ELSE nops
           /\ last' = [op |-> op, args |-> args, ok |-> res.ok, pre |-> sig,
                       ret |-> res.ret, other |-> other,
                       otherPost |-> otherPost]

\* the caller is done with the outcome of the latest call; the next call
\* starts from the signal alone
Call(op, args, r, other, otherPost) ==
    CallWithin(MaxOps, op, args, r, other, otherPost)

Forget ==
    /\ last # NoCall
    /\ last' = NoCall
    /\ UNCHANGED <<sig, nops>>

SetActiveRegion ==
    \E a \in RegionArgs :
        Call("set_active_region", a,
             set_active_region(sig, a[1], a[2]), None, None)

SetActiveRegionToDefault ==
    Call("set_active_region_to_default", <<>>,
         Return(set_active_region_to_default(sig), None), None, None)

LoadAudioFromArray ==
    \E a \in LoadInputs, r \in {2} :
        Call("load_audio_from_array", <<a, r>>,
             load_audio_from_array(sig, a, r), None, None)

Concat ==
    \E other \in Others :
        Call("concat", <<>>, concat(sig, other), other, other)

TruncateSamples ==
    \E n \in {0 - 1, 0, 1, MaxLen + 1} :
        Call("truncate_samples", <<n>>, truncate_samples(sig, n), None, None)

TruncateSeconds ==
    \E n \in {0, 1, MaxLen + 1} :
        Call("truncate_seconds", <<n>>, truncate_seconds(sig, n), None, None)

CropSignal ==
    \E before \in 0..1, after \in 0..1 :
        Call("crop_signal", <<before, after>>,
             crop_signal(sig, before, after), None, None)

ZeroPad ==
    \E before \in 0..1, after \in 0..1 :
        Call("zero_pad", <<before, after>>,
             zero_pad(sig, before, after), None, None)

PeakNormalize ==
    \E overwrite \in BOOLEAN :
        Call("peak_normalize", <<overwrite>>,
             peak_normalize(sig, overwrite), None, None)

ApplyGain ==
    \E value \in GainValues :
        Call("apply_gain", <<value>>, apply_gain(sig, value), None, None)

IMul ==
    \E value \in {<<"real", 0 - 1, 1>>} :
        Call("__imul__", <<value>>, __imul__(sig, value), None, None)

IDiv ==
    \E value \in {0, 2} :
        Call("__idiv__", <<value>>, __idiv__(sig, value), None, None)

Add ==
    \E other \in Others :
        LET r == add(sig, other)
        IN /\ r.ok => InBounds(r.ret._audio_data)
           /\ Call("add", <<>>, r, other, r.other)

Subtract ==
    \E other \in Others :
        LET r == subtract(sig, other)
        IN /\ r.ok => InBounds(r.ret._audio_data)
           /\ Call("subtract", <<>>, r, other, r.other)

GetChannel ==
    \E n \in ChannelArgs :
        Call("get_channel", <<n>>, get_channel(sig, n), None, None)

GetStftChannel ==
    \E n \in ChannelArgs :
        Call("get_stft_channel", <<n>>, get_stft_channel(sig, n), None, None)

GetPowerSpectrogramChannel ==
    \E n \in ChannelArgs :
        Call("get_power_spectrogram_channel", <<n>>,
             get_power_spectrogram_channel(sig, n), None, None)

GetMagnitudeSpectrogramChannel ==
    \E n \in ChannelArgs :
        Call("get_magnitude_spectrogram_channel", <<n>>,
             get_magnitude_spectrogram_channel(sig, n), None, None)

ToMono ==
    \E overwrite \in BOOLEAN, keep_dims \in BOOLEAN :
        Call("to_mono", <<overwrite, keep_dims>>,
             to_mono(sig, overwrite, keep_dims), None, None)

Resample ==
    \E new_sample_rate \in {1, 2} :
        Call("resample", <<new_sample_rate>>,
             resample(sig, new_sample_rate), None, None)

\* the window and hop lengths of the calls
WindowLengths == {2}
HopLengths == {1, 2}

StftWith(limit, windows, hops) ==
    \E w \in windows, h \in hops, overwrite \in BOOLEAN :
        CallWithin(limit, "stft", <<w, h, overwrite>>,
                   stft(sig, w, h, overwrite), None, None)

\* the caller passes the window length the stored transform was made with
IstftWith(limit, hops) ==
    \E h \in hops, overwrite \in BOOLEAN :
        LET w == IF IsNone(sig._stft_data) THEN 2 ELSE sig._stft_data.shape[1]
        IN CallWithin(limit, "istft", <<w, h, overwrite, NoneInt>>,
                      istft(sig, w, h, overwrite, NoneInt), None, None)

Stft == StftWith(MaxOps, WindowLengths, HopLengths)

Istft == IstftWith(MaxOps, HopLengths)

Next ==
    \/ SetActiveRegion
    \/ SetActiveRegionToDefault
    \/ LoadAudioFromArray
    \/ Concat
    \/ TruncateSamples
    \/ TruncateSeconds
    \/ CropSignal
    \/ ZeroPad
    \/ PeakNormalize
    \/ ApplyGain
    \/ IMul
    \/ IDiv
    \/ Add
    \/ Subtract
    \/ GetChannel
    \/ GetStftChannel
    \/ GetPowerSpectrogramChannel
    \/ GetMagnitudeSpectrogramChannel
    \/ ToMono
    \/ Resample
    \/ Stft
    \/ Istft
    \/ Forget

Spec == Init /\ [][Next]_vars

----------------------------------------------------------------------------
(* The transforms on their own: stft and istft calls with hops that divide *)
(* the window, hops that do not, and hops beyond the window, on signals    *)
(* whose active region the caller may narrow in between                    *)

TransformWindowLengths == {1, 2}
TransformHopLengths == {1, 2, 3}

TransformStft ==
    StftWith(MaxTransformOps, TransformWindowLengths, TransformHopLengths)

TransformIstft == IstftWith(MaxTransformOps, TransformHopLengths)

\* a mask of the shape (bins, frames, channels) with values 0, 1 and 2
MaskOfShape(bins, frames, channels) ==
    [kind |-> "MaskBase",
     mask |-> ndarray(<<bins, frames, channels>>,
                      [b \in 1..bins |->
                          [f \in 1..frames |->
                              [c \in 1..channels |-> (b + f + c) % 3]]],
                      TRUE)]

\* the masks offered to a signal: one of the shape of its stft_data, one
\* with a single channel and one with a single frame that numpy could
\* broadcast, and an object that is no mask
MaskInputs(s) ==
    LET shape == IF IsNone(s._stft_data) THEN <<2, 1, 1>>
                 ELSE s._stft_data.shape
    IN { MaskOfShape(shape[1], shape[2], shape[3]),
         MaskOfShape(shape[1], shape[2], 1),
         MaskOfShape(shape[1], 1, shape[3]),
         [kind |-> "ndarray", shape |-> shape] }

ApplyMask ==
    \E mask \in MaskInputs(sig) :
        Call("apply_mask", <<mask>>, apply_mask(sig, mask), None, None)

\* the sources a signal is constructed from: a stereo file, a file that
\* cannot be read; a stereo array, an array without samples; a transform,
\* a transform without frames
FileInputs ==
    { [kind |-> "file", readable |-> TRUE,
       audio |-> InputArray(MaxChan, MaxLen, 1), sample_rate |-> 2],
      [kind |-> "file", readable |-> FALSE,
       audio |-> None, sample_rate |-> NoneInt] }

ArrayInputs == { InputArray(MaxChan, MaxLen, 1), InputArray(1, 0, 1) }

StftInputs ==
    { StftInput, ndarray(<<2, 0, 1>>, [b \in 1..2 |-> << >>], TRUE) }

\* AudioSignal(...): the caller goes on with the new signal; when the
\* constructor raises there is none and the caller keeps the one it had
Construct ==
    \E path \in FileInputs \cup {None}, a \in ArrayInputs \cup {None},
       st \in StftInputs \cup {None}, rate \in {NoneInt, 1} :
        LET r == __init__(path, a, st, rate)
        IN CallWithin(MaxTransformOps, "__init__", <<path, a, st, rate>>,
                      [ok |-> r.ok, sig |-> IF r.ok THEN r.sig ELSE sig,
                       ret |-> None], None, None)

TransformNext ==
    \/ SetActiveRegion
    \/ SetActiveRegionToDefault
    \/ TransformStft
    \/ TransformIstft
    \/ ApplyMask
    \/ Construct
    \/ Forget

TransformSpec == Init /\ [][TransformNext]_vars

----------------------------------------------------------------------------
(* The transforms with arguments off the beaten track: a length to         *)
(* truncate the reconstruction to, shorter and longer than any             *)
(* reconstruction; windows and hops that are not positive; and the         *)
(* conversions of the samples to integers                                  *)

EdgeHopLengths == {1, 2}
TruncateLengths == {NoneInt, 1, 4 * MaxLen}

\* lengths no window and no hop can have
BadLengths == {0 - 1, 0}

EdgeStft ==
    StftWith(MaxTransformOps, TransformWindowLengths \cup BadLengths,
             EdgeHopLengths \cup BadLengths)

EdgeIstft ==
    \E h \in EdgeHopLengths, overwrite \in BOOLEAN,
       truncate_to_length \in TruncateLengths :
        LET w == IF IsNone(sig._stft_data) THEN 2 ELSE sig._stft_data.shape[1]
        IN CallWithin(MaxTransformOps, "istft",
                      <<w, h, overwrite, truncate_to_length>>,
                      istft(sig, w, h, overwrite, truncate_to_length),
                      None, None)

BitDepths == {8, 12, 16, 24, 32}
Overflows == {"wrap", "lowest"}

AudioDataAsInts ==
    \E bit_depth \in BitDepths, overflow \in Overflows :
        CallWithin(MaxTransformOps, "audio_data_as_ints",
                   <<bit_depth, overflow>>,
                   audio_data_as_ints(sig, bit_depth, overflow), None, None)

StftToOneChannel ==
    \E overwrite \in BOOLEAN :
        CallWithin(MaxTransformOps, "stft_to_one_channel", <<overwrite>>,
                   stft_to_one_channel(sig, overwrite), None, None)

\* the samples become one channel while the transform keeps its channels
EdgeToMono ==
    CallWithin(MaxTransformOps, "to_mono", <<TRUE, FALSE>>,
               to_mono(sig, TRUE, FALSE), None, None)

WriteAudioToFile ==
    \E overflow \in Overflows :
        CallWithin(MaxTransformOps, "write_audio_to_file", <<overflow>>,
                   write_audio_to_file(sig, overflow), None, None)

EdgeNext ==
    \/ EdgeStft
    \/ WriteAudioToFile
    \/ EdgeToMono
    \/ EdgeIstft
    \/ AudioDataAsInts
    \/ StftToOneChannel
    \/ Forget

EdgeSpec == Init /\ [][EdgeNext]_vars

----------------------------------------------------------------------------
(* Properties of the active region (C1 - C3)                               *)

\* the signal holds time-domain samples
Populated(s) == ~IsNone(s._audio_data)

\* the active region of s is [0, stored length)
WholeRegion(s) ==
    s._active_start = 0 /\ s._active_end = _signal_length(s)

\* the samples of array a at the indices lo, lo + 1, ..., hi - 1 of every
\* channel, for 0 <= lo <= hi <= length
Window(a, lo, hi) ==
    ndarray(<<a.shape[1], hi - lo>>,
            [i \in 1..a.shape[1] |-> [j \in 1..(hi - lo) |-> a.data[i][lo + j]]],
            a.finite)

\* C1: in every reachable state of a populated signal,
\* 0 <= active start <= active end <= stored length
C1_RegionWithinStoredLength ==
    Populated(sig) =>
        /\ 0 <= sig._active_start
        /\ sig._active_start <= sig._active_end
        /\ sig._active_end <= _signal_length(sig)

\* C2: set_active_region(start, end) on a populated signal of stored length
\* L never fails; with cs = max(start, 0) and ce = min(end, L) the signal
\* then reads as the stored samples at the indices [cs, ce) and its
\* signal_length is ce - cs
C2_SetActiveRegionClamps ==
    (last.op = "set_active_region" /\ Populated(last.pre)) =>
        LET L == _signal_length(last.pre)
            cs == Max(last.args[1], 0)
            ce == Min(last.args[2], L)
        IN /\ last.ok
           /\ signal_length(sig) = ce - cs
           /\ (0 <= cs /\ cs <= ce /\ ce <= L) =>
                  audio_data(sig) = Window(sig._audio_data, cs, ce)

\* C3: set_active_region leaves the stored array, the sample rate and the
\* time-frequency data as they were, and a following
\* set_active_region_to_default makes audio_data the whole stored array
\* again: what audio_data was before a default region was narrowed
C3_RegionIsOnlyAView ==
    /\ last.op = "set_active_region" =>
           /\ last.ok
           /\ sig._audio_data = last.pre._audio_data
           /\ sig._sample_rate = last.pre._sample_rate
           /\ sig._stft_data = last.pre._stft_data
           /\ audio_data(set_active_region_to_default(sig))
                  = last.pre._audio_data
           /\ WholeRegion(last.pre) =>
                  audio_data(set_active_region_to_default(sig))
                      = audio_data(last.pre)
    /\ last.op = "set_active_region_to_default" =>
           /\ Content(sig) = Content(last.pre)
           /\ audio_data(sig) = last.pre._audio_data

\* a default region has just been narrowed to a proper part of the samples
C3_Witness ==
    /\ last.op = "set_active_region"
    /\ Populated(last.pre)
    /\ WholeRegion(last.pre)
    /\ sig._active_start > 0
    /\ audio_data(sig) # audio_data(last.pre)

----------------------------------------------------------------------------
(* Properties of the calls that assign samples (C4 - C6)                   *)

\* the latest call returned after assigning a new array to audio_data
Assigned ==
    /\ last.ok
    /\ \/ last.op \in {"load_audio_from_array", "concat", "truncate_samples",
                       "truncate_seconds", "crop_signal", "apply_gain",
                       "__imul__", "__idiv__"}
       \/ last.op = "zero_pad" /\ num_channels(last.pre) > 0
       \/ last.op = "peak_normalize" /\ last.args[1] /\ ~IsNone(last.ret)
       \/ last.op = "to_mono" /\ last.args[1]
       \/ last.op = "istft" /\ (last.args[3] \/ ~Populated(last.pre))
       \/ last.op = "resample" /\ last.args[1] # last.pre._sample_rate

\* C4: after a call that assigned new sample data (load from an array,
\* concat, truncate, crop, zero_pad, apply_gain, peak_normalize, to_mono
\* and istft with overwrite, resample) the active region is exactly
\* [0, stored length)
C4_AssignmentResetsRegion ==
    Assigned =>
        /\ Populated(sig)
        /\ sig._active_start = 0
        /\ sig._active_end = sig._audio_data.shape[2]

\* new samples were assigned to a signal whose region was narrowed
C4_Witness ==
    /\ Assigned
    /\ Populated(last.pre)
    /\ ~WholeRegion(last.pre)
    /\ sig._audio_data # last.pre._audio_data

\* C5: concat, truncate_samples, truncate_seconds, crop_signal, zero_pad,
\* add and subtract on a signal whose active region is not the whole stored
\* length fail and leave the stored samples and the region as they were
C5_NarrowedSignalRejected ==
    (/\ last.op \in {"concat", "truncate_samples", "truncate_seconds",
                     "crop_signal", "zero_pad", "add", "subtract"}
     /\ ~WholeRegion(last.pre)) =>
        /\ ~last.ok
        /\ sig = last.pre

\* a call of one of these operations on a populated signal whose region is
\* a proper part of its samples, with arguments that a default region accepts
C5_Witness ==
    /\ last.op = "crop_signal"
    /\ last.args = <<0, 0>>
    /\ Populated(last.pre)
    /\ last.pre._active_start = 0
    /\ last.pre._active_end = 1
    /\ _signal_length(last.pre) > 1
    /\ ~last.ok

\* C6: peak_normalize and apply_gain (and with it *= and /=) on a signal
\* whose active region is not the whole stored length are rejected with an
\* error and leave the stored samples as they were
C6_GainOnNarrowedSignalRejected ==
    (/\ last.op \in {"peak_normalize", "apply_gain", "__imul__", "__idiv__"}
     /\ Populated(last.pre)
     /\ ~WholeRegion(last.pre)) =>
        /\ ~last.ok
        /\ sig._audio_data = last.pre._audio_data

----------------------------------------------------------------------------
(* Properties of add and subtract (C7) and of peak_normalize (C8)          *)

\* C7: add and subtract fail unless both operands have equal sample rates,
\* channel counts and lengths; when they return, the result is a new signal
\* holding the element-wise sum (difference) of the operands' samples, and
\* both operands are as they were
C7_ArithmeticOnEqualShapes ==
    last.op \in {"add", "subtract"} =>
        /\ last.ok =>
               /\ last.pre._sample_rate = last.other._sample_rate
               /\ num_channels(last.pre) = num_channels(last.other)
               /\ signal_length(last.pre) = signal_length(last.other)
               /\ last.ret._audio_data =
                      ArrayAdd(audio_data(last.pre),
                               Scale(audio_data(last.other),
                                     IF last.op = "add" THEN 1 ELSE 0 - 1, 1))
        /\ sig = last.pre
        /\ last.otherPost = last.other

\* C8: after peak_normalize with overwrite the largest absolute sample is
\* at most 1.0 (max_val), and a signal whose largest absolute sample was at
\* most 1.0 already is left unchanged
C8_PeakNormalizeBounds ==
    (last.op = "peak_normalize" /\ last.ok /\ last.args[1]) =>
        /\ MaxAbsOf(audio_data(sig)) <= max_val
        /\ MaxAbsOf(audio_data(last.pre)) <= max_val => sig = last.pre

\* a signal louder than 1.0 has been normalised in place
C8_Witness ==
    /\ last.op = "peak_normalize"
    /\ last.ok
    /\ last.args[1]
    /\ MaxAbsOf(audio_data(last.pre)) > max_val
    /\ MaxAbsOf(audio_data(sig)) = max_val

----------------------------------------------------------------------------
(* Properties of the channel accessors (C9) and the stored array (C10)     *)

ChannelAccessors ==
    {"get_channel", "get_stft_channel", "get_power_spectrogram_channel",
     "get_magnitude_spectrogram_channel"}

\* channel n (from 0) of the samples s reads as, None without samples
NthChannel(s, n) ==
    IF ~Populated(s) THEN None
    ELSE ndarray(<<audio_data(s).shape[2]>>, audio_data(s).data[n + 1], TRUE)

\* channel n (from 0) of the time-frequency data of s, every value v taken
\* as v (power 0), |v| (power 1) or |v|^2 (power 2); None without such data
NthStftChannel(s, n, power) ==
    IF IsNone(s._stft_data) \/ n >= s._stft_data.shape[3] THEN None
    ELSE LET a == s._stft_data
         IN ndarray(<<a.shape[1], a.shape[2]>>,
                    [b \in 1..a.shape[1] |->
                        [f \in 1..a.shape[2] |->
                            LET v == a.data[b][f][n + 1]
                            IN IF power = 0 THEN v
                               ELSE IF power = 1 THEN Abs(v) ELSE v * v]],
                    TRUE)

\* what the accessor op has to return for channel n of s
ExpectedChannel(op, s, n) ==
    IF op = "get_channel" THEN NthChannel(s, n)
    ELSE IF op = "get_stft_channel" THEN NthStftChannel(s, n, 0)
    ELSE IF op = "get_magnitude_spectrogram_channel"
         THEN NthStftChannel(s, n, 1)
    ELSE NthStftChannel(s, n, 2)

\* C9 as stated: on a signal with a defined channel count the accessors
\* fail for n < 0 and for n >= num_channels, and for 0 <= n < num_channels
\* they return the n-th channel
C9_AccessorsAsStated ==
    (last.op \in ChannelAccessors /\ num_channels(last.pre) # NoneInt) =>
        LET n == last.args[1]
        IN /\ (n < 0 \/ n >= num_channels(last.pre)) => ~last.ok
           /\ (0 <= n /\ n < num_channels(last.pre)) =>
                  /\ last.ok
                  /\ last.ret = ExpectedChannel(last.op, last.pre, n)

\* C9: on a signal with a defined channel count the accessors fail for
\* n < 0 and for n >= num_channels; for 0 <= n < num_channels, get_channel
\* returns the n-th channel when the signal holds samples, and
\* get_stft_channel and the spectrogram accessors return the n-th channel
\* when the signal holds time-frequency data of more than n channels
C9_AccessorsCheckChannel ==
    (last.op \in ChannelAccessors /\ num_channels(last.pre) # NoneInt) =>
        LET n == last.args[1]
            present == IF last.op = "get_channel" THEN Populated(last.pre)
                       ELSE /\ ~IsNone(last.pre._stft_data)
                            /\ n < last.pre._stft_data.shape[3]
        IN /\ (n < 0 \/ n >= num_channels(last.pre)) => ~last.ok
           /\ (0 <= n /\ n < num_channels(last.pre) /\ present) =>
                  /\ last.ok
                  /\ last.ret = ExpectedChannel(last.op, last.pre, n)
           /\ sig = last.pre

\* the last channel of time-frequency data of several channels was read
C9_Witness ==
    /\ last.op = "get_stft_channel"
    /\ last.args[1] = MaxChan - 1
    /\ last.args[1] > 0
    /\ last.ok

\* C10: the stored time-domain array has rank 2, finite values and no more
\* channels than samples; assigning an array with a non-finite value or of
\* rank above 2 is rejected and leaves the stored array as it was
C10_StoredArrayWellFormed ==
    /\ Populated(sig) =>
           /\ ndim(sig._audio_data) = 2
           /\ sig._audio_data.finite
           /\ sig._audio_data.shape[1] <= sig._audio_data.shape[2]
    /\ (/\ last.op = "load_audio_from_array"
        /\ (~last.args[1].finite \/ ndim(last.args[1]) > 2)) =>
           /\ ~last.ok
           /\ sig._audio_data = last.pre._audio_data
    /\ (/\ last.op = "apply_gain"
        /\ last.args[1] = <<"real", 1, 0>>
        /\ Populated(last.pre)
        /\ size(audio_data(last.pre)) > 0) =>
           /\ ~last.ok
           /\ sig._audio_data = last.pre._audio_data

----------------------------------------------------------------------------
(* Properties of concat (C11)                                              *)

\* C11: a.concat(b) fails when a and b differ in channel count or in sample
\* rate; when it returns, a's length is its previous length plus b's
\* length, every channel of a holds a's previous samples followed by b's,
\* and b is as it was
C11_ConcatAppends ==
    last.op = "concat" =>
        /\ (\/ num_channels(last.pre) # num_channels(last.other)
            \/ last.pre._sample_rate # last.other._sample_rate) => ~last.ok
        /\ last.ok =>
               /\ signal_length(sig)
                      = signal_length(last.pre) + signal_length(last.other)
               /\ num_channels(sig) = num_channels(last.pre)
               /\ \A i \in 1..num_channels(sig) :
                      audio_data(sig).data[i]
                          = audio_data(last.pre).data[i]
                                \o audio_data(last.other).data[i]
        /\ last.otherPost = last.other

\* a concat of two signals with samples has returned
C11_Witness ==
    /\ last.op = "concat"
    /\ last.ok
    /\ signal_length(last.pre) > 0
    /\ signal_length(last.other) > 0
    /\ signal_length(sig) > signal_length(last.pre)

----------------------------------------------------------------------------
(* Properties of the forward and the inverse transform (C12, C13)          *)

\* the latest call is stft(w, h) on samples that are there, or istft(w, h)
\* on a signal whose stored transform is the forward transform, for the
\* same w and h, of the samples it reads as
ForwardCall ==
    /\ last.op = "stft"
    /\ Populated(last.pre)
    /\ size(audio_data(last.pre)) > 0

InverseOfForwardCall ==
    /\ last.op = "istft"
    /\ Populated(last.pre)
    /\ size(audio_data(last.pre)) > 0
    /\ last.pre._stft_data = _do_stft(last.pre, last.args[1], last.args[2])

\* the inverse transform of channel c (from 1) of the array a that stft
\* returned, for the window and hop lengths of that call
Reconstructed(a, c) ==
    e_istft(_get_stft_axis(a, c - 1).ret, last.args[1], last.args[2])

----------------------------------------------------------------------------
(* Properties of apply_mask (C14)                                          *)

\* C14: apply_mask(mask) fails whenever the shape of the mask differs from
\* the shape of the signal's frequency-domain array; when it returns, the
\* result is a new signal without time-domain data whose frequency-domain
\* data is the element-wise product of the signal's and the mask, and the
\* signal's own time-domain data, frequency-domain data and active region
\* are as they were
C14_ApplyMask ==
    last.op = "apply_mask" =>
        LET mask == last.args[1]
            a == last.pre._stft_data
        IN /\ (\/ mask.kind # "MaskBase"
               \/ IsNone(a)
               \/ mask.mask.shape # a.shape) => ~last.ok
           /\ last.ok =>
                  /\ IsNone(last.ret._audio_data)
                  /\ last.ret._stft_data.shape = a.shape
                  /\ \A b \in 1..a.shape[1], f \in 1..a.shape[2],
                        c \in 1..a.shape[3] :
                         last.ret._stft_data.data[b][f][c]
                             = a.data[b][f][c] * mask.mask.data[b][f][c]
           /\ sig = last.pre

\* a mask was applied to a signal that holds samples and the transform of
\* several channels
C14_Witness ==
    /\ last.op = "apply_mask"
    /\ last.ok
    /\ Populated(last.pre)
    /\ last.pre._stft_data.shape[3] > 1
    /\ last.ret._stft_data # last.pre._stft_data

----------------------------------------------------------------------------
(* Properties of the data a signal holds across stft and istft (C15)       *)

HasStft(s) == ~IsNone(s._stft_data)

\* C15: stft never changes the time-domain data and istft never changes the
\* frequency-domain data; without overwrite stft leaves existing
\* frequency-domain data and istft existing time-domain data as they were;
\* so a signal that holds both holds both after every stft and istft call
C15_NoDataLostWithoutOverwrite ==
    /\ last.op = "stft" =>
           /\ sig._audio_data = last.pre._audio_data
           /\ (~last.args[3] /\ HasStft(last.pre)) =>
                  sig._stft_data = last.pre._stft_data
    /\ last.op = "istft" =>
           /\ sig._stft_data = last.pre._stft_data
           /\ (~last.args[3] /\ Populated(last.pre)) =>
                  sig._audio_data = last.pre._audio_data
    /\ (last.op \in {"stft", "istft"}
        /\ Populated(last.pre) /\ HasStft(last.pre)) =>
           (Populated(sig) /\ HasStft(sig))

\* istft without overwrite returned samples other than the ones the signal
\* holds
C15_Witness ==
    /\ last.op = "istft"
    /\ last.ok
    /\ ~last.args[3]
    /\ Populated(last.pre)
    /\ WholeRegion(last.pre)
    /\ last.ret # last.pre._audio_data

----------------------------------------------------------------------------
(* Properties of the constructor (C16)                                     *)

\* the number of sources (file, array, transform) the constructor was given
SourcesGiven == Cardinality({i \in 1..3 : ~IsNone(last.args[i])})

\* C16: a constructor call with more than one source raises; with exactly
\* one source (a readable file in the case of a file) it succeeds and the
\* signal holds the data of that source only - time-domain data for a file
\* or an array, frequency-domain data for a transform; with no source it
\* succeeds and the signal holds neither
C16_ConstructorSources ==
    last.op = "__init__" =>
        /\ SourcesGiven > 1 => ~last.ok
        /\ SourcesGiven = 1 =>
               /\ last.ok = (IsNone(last.args[1]) \/ last.args[1].readable)
               /\ last.ok =>
                      IF IsNone(last.args[3])
                      THEN Populated(sig) /\ ~HasStft(sig)
                      ELSE HasStft(sig) /\ ~Populated(sig)
        /\ SourcesGiven = 0 =>
               last.ok /\ ~Populated(sig) /\ ~HasStft(sig)

\* a constructor call with an array and a transform
C16_Witness ==
    /\ last.op = "__init__"
    /\ ~IsNone(last.args[2])
    /\ ~IsNone(last.args[3])
    /\ IsNone(last.args[1])
    /\ ~last.ok

----------------------------------------------------------------------------
(* Properties of the transforms of a signal without data (C17)             *)

\* s stores no sample: no array, or an array without elements
NoSamples(s) == ~Populated(s) \/ Prod(s._audio_data.shape) = 0

\* s stores no frame: no time-frequency array, or one without elements
NoFrames(s) == ~HasStft(s) \/ Prod(s._stft_data.shape) = 0

\* C17: stft on a signal that stores no sample raises, istft on a signal
\* that stores no frame raises, and the signal - samples, frames, sample
\* rate and active region - is after the call what it was before
C17_NothingToTransform ==
    /\ (last.op = "stft" /\ NoSamples(last.pre)) =>
           (~last.ok /\ sig = last.pre)
    /\ (last.op = "istft" /\ NoFrames(last.pre)) =>
           (~last.ok /\ sig = last.pre)

\* stft with overwrite on a signal that stores an array without samples
\* and no frames
C17_Witness ==
    /\ last.op = "stft"
    /\ last.args[3]
    /\ Populated(last.pre)
    /\ NoSamples(last.pre)
    /\ ~HasStft(last.pre)
    /\ ~last.ok

\* istft on a signal that stores a time-frequency array without frames
C17_WitnessInverse ==
    /\ last.op = "istft"
    /\ HasStft(last.pre)
    /\ NoFrames(last.pre)
    /\ ~last.ok

----------------------------------------------------------------------------
(* Properties of to_mono (C18)                                             *)

\* C18: to_mono(overwrite, keep_dims) on a signal of at least one channel
\* succeeds and returns, for every visible sample index, the mean of the
\* channels at that index (to the nearest unit), as one row when keep_dims
\* is set and as a 1-D array otherwise; for a single channel these are the
\* visible samples themselves; without overwrite the signal is left as it
\* was
C18_ToMonoIsMean ==
    (/\ last.op = "to_mono"
     /\ Populated(last.pre)
     /\ last.pre._audio_data.shape[1] > 0) =>
        LET visible == audio_data(last.pre)
            n == visible.shape[1]
            L == visible.shape[2]
            row == IF last.args[2] THEN last.ret.data[1] ELSE last.ret.data
        IN /\ last.ok
           /\ last.ret.shape = IF last.args[2] THEN <<1, L>> ELSE <<L>>
           /\ \A j \in 1..L :
                  2 * Abs(n * row[j]
                          - SeqSum([i \in 1..n |-> visible.data[i][j]])) <= n
           /\ n = 1 => row = visible.data[1]
           /\ ~last.args[1] => sig = last.pre

\* to_mono without overwrite on a narrowed signal of several channels
C18_Witness ==
    /\ last.op = "to_mono"
    /\ last.ok
    /\ ~last.args[1]
    /\ Populated(last.pre)
    /\ ~WholeRegion(last.pre)
    /\ last.pre._audio_data.shape[1] > 1
    /\ last.ret.shape[Len(last.ret.shape)] > 0

----------------------------------------------------------------------------
(* Properties of the stored samples of a narrowed signal (C19)             *)

\* C19: when apply_gain, peak_normalize, to_mono with overwrite, stft, istft
\* with overwrite or resample succeeds on a signal whose active region is
\* narrowed, the signal stores after set_active_region_to_default as many
\* samples as it stored before the call
C19_NarrowedSignalKeepsItsSamples ==
    (/\ \/ last.op \in {"apply_gain", "peak_normalize", "stft", "resample"}
        \/ last.op = "to_mono" /\ last.args[1]
        \/ last.op = "istft" /\ last.args[3]
     /\ last.ok
     /\ Populated(last.pre)
     /\ ~WholeRegion(last.pre)) =>
        _signal_length(set_active_region_to_default(sig))
            = _signal_length(last.pre)

----------------------------------------------------------------------------
(* Properties of the frames of the forward transform (C20)                 *)

\* frame k (from 0) of the samples row for window W and hop H: the samples
\* at the indices [k * H, k * H + W), zero where the row has ended
FrameOf(row, k, W, H) ==
    [w \in 1..W |-> IF k * H + w <= Len(row) THEN row[k * H + w] ELSE 0]

----------------------------------------------------------------------------
(* Properties of the length of the reconstruction (C21)                    *)

\* C21: the samples istft returns are truncate_to_length long when that
\* argument is given, else as long as the signal's samples when it has
\* samples, else as long as the overlap-add of the frames
C21_IstftLength ==
    (last.op = "istft" /\ last.ok) =>
        LET frames == last.pre._stft_data.shape[2]
            natural == (frames - 1) * last.args[2] + last.args[1]
        IN last.ret.shape[2] =
               IF last.args[4] # NoneInt THEN last.args[4]
               ELSE IF Populated(last.pre) THEN signal_length(last.pre)
               ELSE natural

----------------------------------------------------------------------------
(* Properties of stft with a window or a hop that is not positive (C22)    *)

\* C22: stft with window_length <= 0 or hop_length <= 0 raises and leaves
\* the signal's samples and frames as they were
C22_BadWindowOrHopRejected ==
    (last.op = "stft" /\ (last.args[1] <= 0 \/ last.args[2] <= 0)) =>
        /\ ~last.ok
        /\ sig._audio_data = last.pre._audio_data
        /\ sig._stft_data = last.pre._stft_data

\* stft with overwrite, a window of 0 samples and a hop of 1 on a signal
\* with samples
C22_Witness ==
    /\ last.op = "stft"
    /\ last.args = <<0, 1, TRUE>>
    /\ Populated(last.pre)
    /\ size(last.pre._audio_data) > 0
    /\ ~last.ok

----------------------------------------------------------------------------
(* Properties of the conversion to integers (C23)                          *)

\* C23: audio_data_as_ints(bit_depth) on a signal with samples succeeds for
\* the bit depths 8, 16, 24 and 32 and returns for every sample s with
\* -1 <= s < 1 the integer s * 2^(bit_depth - 1), which is 2^(bit_depth - 3)
\* for each of the 4 units of 1.0; it raises for every other bit depth; the
\* signal is in all cases what it was
C23_AsIntsOfEveryBitDepth ==
    (last.op = "audio_data_as_ints" /\ Populated(last.pre)) =>
        LET visible == audio_data(last.pre)
            bit_depth == last.args[1]
        IN /\ sig = last.pre
           /\ last.ok = (bit_depth \in {8, 16, 24, 32})
           /\ last.ok =>
                  \A i \in 1..visible.shape[1], j \in 1..visible.shape[2] :
                      LET v == visible.data[i][j]
                      IN (0 - max_val <= v /\ v < max_val) =>
                             last.ret.data[i][j] = v * 2 ^ (bit_depth - 3)

----------------------------------------------------------------------------
(* Properties of zero_pad (C24)                                            *)

\* the row with before zeros ahead of it and after zeros behind it
Padded(row, before, after) ==
    [j \in 1..(before + Len(row) + after) |->
        IF before < j /\ j <= before + Len(row) THEN row[j - before] ELSE 0]

\* C24: zero_pad(before, after) with before, after >= 0 on a signal with at
\* least one channel and the whole stored length as active region succeeds
\* and leaves as many channels, each holding before zeros, its samples and
\* after zeros
C24_ZeroPadEveryChannel ==
    (/\ last.op = "zero_pad"
     /\ Populated(last.pre)
     /\ WholeRegion(last.pre)
     /\ last.pre._audio_data.shape[1] >= 1
     /\ last.args[1] >= 0 /\ last.args[2] >= 0) =>
        LET a == last.pre._audio_data
        IN /\ last.ok
           /\ sig._audio_data.shape
                  = <<a.shape[1], last.args[1] + a.shape[2] + last.args[2]>>
           /\ \A i \in 1..a.shape[1] :
                  sig._audio_data.data[i]
                      = Padded(a.data[i], last.args[1], last.args[2])

----------------------------------------------------------------------------
(* Properties of truncate_samples and crop_signal (C25)                    *)

\* C25: on a signal with samples and the whole stored length L as active
\* region, truncate_samples(n) with 0 <= n <= L leaves the first n samples
\* of every channel and truncate_samples(n) with n > L raises and leaves the
\* signal as it was; crop_signal(before, after) leaves L - before - after
\* samples; the channel count is after both calls what it was
C25_TruncateAndCropKeepChannels ==
    (/\ last.op \in {"truncate_samples", "crop_signal"}
     /\ Populated(last.pre)
     /\ WholeRegion(last.pre)) =>
        LET a == last.pre._audio_data
            L == a.shape[2]
        IN /\ (last.op = "truncate_samples" /\ last.args[1] > L) =>
                  (~last.ok /\ sig = last.pre)
           /\ (/\ last.op = "truncate_samples"
               /\ 0 <= last.args[1] /\ last.args[1] <= L) =>
                  /\ last.ok
                  /\ sig._audio_data = Window(a, 0, last.args[1])
                  /\ signal_length(sig) = last.args[1]
           /\ (last.op = "crop_signal" /\ last.args[1] + last.args[2] <= L) =>
                  /\ last.ok
                  /\ sig._audio_data.shape
                         = <<a.shape[1], L - last.args[1] - last.args[2]>>

----------------------------------------------------------------------------
(* What stft and istft store (C26)                                         *)

\* C26: after a successful stft the signal's stft_data is the result just
\* computed whenever overwrite is true or stft_data was absent before the
\* call; after a successful istft the signal's audio_data is the result just
\* computed whenever overwrite is true or audio_data was absent before
C26_TransformStoresResult ==
    /\ (/\ last.op = "stft" /\ last.ok
        /\ (last.args[3] \/ IsNone(last.pre._stft_data))) =>
           sig._stft_data = last.ret
    /\ (/\ last.op = "istft" /\ last.ok
        /\ (last.args[3] \/ IsNone(last.pre._audio_data))) =>
           sig._audio_data = last.ret

----------------------------------------------------------------------------
(* The one-channel transform (C27)                                         *)

\* the mean over the channels of the 3-D array a, as an array of shape
\* (bins, frames, 1)
ChannelMean(a) ==
    ndarray(<<a.shape[1], a.shape[2], 1>>,
            [b \in 1..a.shape[1] |->
                [f \in 1..a.shape[2] |->
                    <<RoundDiv(SeqSum(a.data[b][f]), a.shape[3])>>]],
            a.finite)

\* C27: stft_to_one_channel on stft_data of shape (F, T, C) with at least
\* one channel returns the array of shape (F, T, 1) whose entry [f, t] is
\* the mean over the C channels, and with overwrite that array is the
\* signal's stft_data after the call
C27_StftToOneChannelIsChannelMean ==
    (/\ last.op = "stft_to_one_channel"
     /\ ~IsNone(last.pre._stft_data)
     /\ last.pre._stft_data.shape[3] > 0) =>
        /\ last.ok
        /\ last.ret = ChannelMean(last.pre._stft_data)
        /\ last.args[1] => sig._stft_data = ChannelMean(last.pre._stft_data)

----------------------------------------------------------------------------
(* The active region of a signal nobody narrowed (C28)                     *)

\* C28: a signal as its constructor leaves it, whatever it was constructed
\* from (a file, an array, a transform, nothing), and the copy without
\* samples that apply_mask returns report active_region_is_default
C28_UntouchedRegionIsDefault ==
    /\ (last.op = "__init__" /\ last.ok) => active_region_is_default(sig)
    /\ (last.op = "apply_mask" /\ last.ok) =>
           active_region_is_default(last.ret)

----------------------------------------------------------------------------
(* The channels istft reconstructs (C29)                                   *)

\* C29: istft on a signal whose stft_data has entries succeeds and returns
\* as many channels as stft_data has, whatever the channel count of the
\* signal's samples
C29_IstftChannelsAreStftChannels ==
    (/\ last.op = "istft"
     /\ ~IsNone(last.pre._stft_data)
     /\ size(last.pre._stft_data) > 0) =>
        /\ last.ok
        /\ last.ret.shape[1] = last.pre._stft_data.shape[3]

----------------------------------------------------------------------------
(* The range of the 16-bit conversion (C30)                                *)

Sign(x) == IF x > 0 THEN 1 ELSE IF x < 0 THEN 0 - 1 ELSE 0

\* the integer r is a 16-bit integer with the sign of the sample v
SixteenBitsOf(v, r) ==
    /\ 0 - 32768 <= r /\ r <= 32767
    /\ Sign(r) = Sign(v)

\* C30: the integers write_audio_to_file writes and the integers
\* audio_data_as_ints(16) returns are, for every sample s with
\* -1 <= s <= 1 (every sample after the normalisation of
\* write_audio_to_file), within [-32768, 32767] and of the sign of s
C30_SixteenBitConversionInRange ==
    /\ (last.op = "write_audio_to_file" /\ last.ok) =>
           LET written == audio_data(sig)
           IN \A i \in 1..written.shape[1], j \in 1..written.shape[2] :
                  SixteenBitsOf(written.data[i][j], last.ret.data[j][i])
    /\ (last.op = "audio_data_as_ints" /\ last.ok /\ last.args[1] = 16) =>
           LET visible == audio_data(last.pre)
           IN \A i \in 1..visible.shape[1], j \in 1..visible.shape[2] :
                  LET v == visible.data[i][j]
                  IN (0 - max_val <= v /\ v <= max_val) =>
                         SixteenBitsOf(v, last.ret.data[i][j])

====
